---- MODULE Spec2Model ----
(***************************************************************************)
(* Verification model of the ChimeraFX configuration / code-generation     *)
(* layer (components cfx_light, chimera_light, cfx_effect).                 *)
(*                                                                         *)
(* Every component is a configuration pipeline: a configuration is         *)
(* declared, the validators of CONFIG_SCHEMA run over it, and to_code      *)
(* emits the sequence of calls that configure the engine.  Each pipeline   *)
(* has its own specification over the shared variables; the variables of   *)
(* the other pipelines stay at their idle values.                          *)
(***************************************************************************)
EXTENDS Integers, Sequences, FiniteSets, TLC

VARIABLES
    segments,       \* cfx_light: config["segments"], in declaration order
    num_leds,       \* cfx_light: config["num_leds"]
    seg_status,     \* outcome of _validate_segments ("pending" before it ran)
    seg_returned,   \* the configuration _validate_segments returned
    inj_config,     \* cfx_light: the raw configuration handed to _inject_all_effects
    bundled,        \* the entries of chimera_fx_effects.yaml
    inj_pc,         \* "declared" before _inject_all_effects ran, "injected" after
    inj_out,        \* config["effects"] of the configuration it returned
    lt_component,   \* the output component configured: "cfx_light" or "chimera_light"
    lt_raw,         \* its configuration as written in YAML
    lt_config,      \* its configuration as CONFIG_SCHEMA returned it
    lt_pc,          \* "raw", then "valid" or "invalid", then "done" after to_code
    lt_calls,       \* the calls to_code emitted, in order
    ctl_config,     \* cfx_control: one validated cfx_control configuration
    core_lights,    \* CORE.config["light"]: the validated light configurations
    ctl_pc,         \* "declared", then "done" or the exception to_code raised
    ctl_entities,   \* the entities to_code generated and bound, in order
    eff_raw,        \* addressable_cfx: one effect as written under `effects:`
    eff_config,     \* the effect as its registered schema returned it
    eff_pc,         \* "declared", "valid" or "invalid", "done" (or the exception
                    \* cfx_effect_to_code raised), then "rendering"
    eff_calls,      \* the calls cfx_effect_to_code emitted, in order
    eff_rendered,   \* the effect function the renderer runs for the effect
    tr_config,      \* engine: per segment, its intro / outro configuration
    tr              \* engine: per segment, its effect and transition state

segVars == <<segments, num_leds, seg_status, seg_returned>>
injVars == <<inj_config, bundled, inj_pc, inj_out>>
ltVars == <<lt_component, lt_raw, lt_config, lt_pc, lt_calls>>
ctlVars == <<ctl_config, core_lights, ctl_pc, ctl_entities>>
effVars == <<eff_raw, eff_config, eff_pc, eff_calls, eff_rendered>>
trVars == <<tr_config, tr>>
vars == <<segVars, injVars, ltVars, ctlVars, effVars, trVars>>

\* What each pipeline leaves alone.
segRest == <<injVars, ltVars, ctlVars, effVars, trVars>>
injRest == <<segVars, ltVars, ctlVars, effVars, trVars>>
ltRest == <<segVars, injVars, ctlVars, effVars, trVars>>
ctlRest == <<segVars, injVars, ltVars, effVars, trVars>>
effRest == <<segVars, injVars, ltVars, ctlVars, trVars>>
trRest == <<segVars, injVars, ltVars, ctlVars, effVars>>

\* The idle values of each pipeline, held while another pipeline runs.
SegIdle ==
    /\ segments = <<>>
    /\ num_leds = 0
    /\ seg_status = "idle"
    /\ seg_returned = <<>>

InjIdle ==
    /\ inj_config = <<>>
    /\ bundled = <<>>
    /\ inj_pc = "idle"
    /\ inj_out = <<>>

LtIdle ==
    /\ lt_component = "none"
    /\ lt_raw = <<>>
    /\ lt_config = <<>>
    /\ lt_pc = "idle"
    /\ lt_calls = <<>>

CtlIdle ==
    /\ ctl_config = <<>>
    /\ core_lights = <<>>
    /\ ctl_pc = "idle"
    /\ ctl_entities = <<>>

EffIdle ==
    /\ eff_raw = <<>>
    /\ eff_config = <<>>
    /\ eff_pc = "idle"
    /\ eff_calls = <<>>
    /\ eff_rendered = -1

TrIdle ==
    /\ tr_config = <<>>
    /\ tr = <<>>

segRestIdle == InjIdle /\ LtIdle /\ CtlIdle /\ EffIdle /\ TrIdle
injRestIdle == SegIdle /\ LtIdle /\ CtlIdle /\ EffIdle /\ TrIdle
ltRestIdle == SegIdle /\ InjIdle /\ CtlIdle /\ EffIdle /\ TrIdle
ctlRestIdle == SegIdle /\ InjIdle /\ LtIdle /\ EffIdle /\ TrIdle
effRestIdle == SegIdle /\ InjIdle /\ LtIdle /\ CtlIdle /\ TrIdle
trRestIdle == SegIdle /\ InjIdle /\ LtIdle /\ CtlIdle /\ EffIdle

(***************************************************************************)
(* cfx_light: segment validation                                           *)
(***************************************************************************)

MAX_CFX_SEGMENTS == 6

\* Bounds of the declared inputs.
MaxDecl == 7        \* longest declared segment list
MaxRich == 2        \* positions whose id and geometry are drawn freely
SmallLeds == 2      \* the short strip; the long one has MAX_CFX_SEGMENTS leds

\* A segment as SEGMENT_SCHEMA leaves it: start and stop are uint16 (>= 0).
Segment(id, start, stop) == [id |-> id, start |-> start, stop |-> stop]

\* The segments a user may declare at position p of the list.
SegInputs(p) ==
    IF p <= MaxRich
    THEN { Segment(id, s, e) : id \in {1, p}, s \in 0..SmallLeds, e \in 0..(SmallLeds + 1) }
    ELSE { Segment(p, p - 1, p) }

TooManySegments_off(segs) == Len(segs) > MAX_CFX_SEGMENTS + 1
TooManySegments(segs) == Len(segs) > MAX_CFX_SEGMENTS

StopNotAfterStart_lt(seg) == seg.stop < seg.start
StopNotAfterStart(seg) == seg.stop <= seg.start

StopExceeds(seg, n) == seg.stop > n

\* The per-segment loop: the first failing check of the first failing segment.
RECURSIVE SegmentLoop(_, _, _, _)
SegmentLoop(segs, n, i, seen_ids) ==
    IF i > Len(segs) THEN "ok"
    ELSE IF StopNotAfterStart(segs[i]) THEN "stop_must_be_gt_start"
    ELSE IF StopExceeds(segs[i], n) THEN "stop_exceeds_num_leds"
    ELSE IF segs[i].id \in seen_ids THEN "duplicate_id"
    ELSE SegmentLoop(segs, n, i + 1, seen_ids \cup {segs[i].id})

\* list.sort(key = start) is stable: r goes after every element whose start
\* is not larger.
InsertByStart(sorted, r) ==
    LET k == Cardinality({ j \in 1..Len(sorted) : sorted[j].start <= r.start })
    IN  SubSeq(sorted, 1, k) \o <<r>> \o SubSeq(sorted, k + 1, Len(sorted))

RECURSIVE SortByStart(_)
SortByStart(ranges) ==
    IF ranges = <<>> THEN <<>>
    ELSE InsertByStart(SortByStart(SubSeq(ranges, 1, Len(ranges) - 1)), ranges[Len(ranges)])

ConsecutiveOverlap_le(sorted) ==
    \E i \in 2..Len(sorted) : sorted[i].start <= sorted[i - 1].stop

ConsecutiveOverlap(sorted) ==
    \E i \in 2..Len(sorted) : sorted[i].start < sorted[i - 1].stop

validate_segments(segs, n) ==
    IF segs = <<>> THEN "accepted"
    ELSE IF TooManySegments(segs) THEN "too_many_segments"
    ELSE LET loop == SegmentLoop(segs, n, 1, {})
         IN  IF loop # "ok" THEN loop
             ELSE IF ConsecutiveOverlap(SortByStart(segs)) THEN "overlap"
             ELSE "accepted"

SegInit ==
    /\ segments = <<>>
    /\ num_leds \in {SmallLeds, MAX_CFX_SEGMENTS}
    /\ seg_status = "pending"
    /\ seg_returned = <<>>
    /\ segRestIdle

\* The user declares one more segment under `segments:`.
DeclareSegment ==
    /\ seg_status = "pending"
    /\ Len(segments) < MaxDecl
    /\ \E seg \in SegInputs(Len(segments) + 1) : segments' = Append(segments, seg)
    /\ UNCHANGED <<num_leds, seg_status, seg_returned>>
    /\ UNCHANGED segRest

\* CONFIG_SCHEMA runs _validate_segments over the declared configuration.
ValidateSegments ==
    /\ seg_status = "pending"
    /\ seg_status' = validate_segments(segments, num_leds)
    /\ seg_returned' = IF seg_status' = "accepted" THEN segments ELSE <<>>
    /\ UNCHANGED <<segments, num_leds>>
    /\ UNCHANGED segRest

SegNext == DeclareSegment \/ ValidateSegments

SpecSegments == SegInit /\ [][SegNext]_vars

(***************************************************************************)
(* cfx_light: _inject_all_effects                                          *)
(***************************************************************************)

\* Bounds of the declared inputs.
MaxUserEffects == 2     \* longest user-defined effects list
MaxBundled == 4         \* longest chimera_fx_effects.yaml

\* A key that is absent from a dict: integers use Unset, durations NoDur.
Unset == -1
NoDur == <<>>

\* A float number of seconds, kept exactly: <<whole seconds, thousandths>>.
Seconds(ms) == <<ms \div 1000, ms % 1000>>

\* An entry of an effects list: {kind: {name, effect_id, set_intro, ...}}.
Effect(kind, name, effect_id, set_intro, set_outro, set_intro_dur, set_outro_dur) ==
    [ kind |-> kind, name |-> name, effect_id |-> effect_id,
      set_intro |-> set_intro, set_outro |-> set_outro,
      set_intro_dur |-> set_intro_dur, set_outro_dur |-> set_outro_dur ]

\* The effects a user may declare: other light effects, and addressable_cfx
\* effects that declare none, one or all of the intro/outro keys.
UserEffectInputs ==
    { Effect("pulse", "Pulse", Unset, Unset, Unset, NoDur, NoDur) }
    \cup { Effect("addressable_cfx", name, id, Unset, Unset, NoDur, NoDur) :
              name \in {"Aurora", "Boot"}, id \in {38, 161} }
    \cup { Effect("addressable_cfx", name, id, 4, Unset, Seconds(250), NoDur) :
              name \in {"Aurora", "Boot"}, id \in {38, 161} }
    \cup { Effect("addressable_cfx", name, id, 4, 5, Seconds(250), Seconds(3000)) :
              name \in {"Aurora", "Boot"}, id \in {38, 161} }

\* The i-th entry of chimera_fx_effects.yaml.
BundledEntry(i) ==
    CASE i % 5 = 1 -> Effect("addressable_cfx", "Aurora", 38, Unset, Unset, NoDur, NoDur)
      [] i % 5 = 2 -> Effect("addressable_cfx", "Boot", 158, Unset, Unset, NoDur, NoDur)
      [] i % 5 = 3 -> Effect("addressable_cfx", "Fire", 66, 1, Unset, NoDur, NoDur)
      [] i % 5 = 4 -> Effect("addressable_cfx", "", 159, Unset, Unset, NoDur, NoDur)
      [] OTHER     -> Effect("pulse", "Pulse", Unset, Unset, Unset, NoDur, NoDur)

\* A raw time period as written in YAML: a number and a unit.
TimeInputs == { [n |-> 1500, unit |-> "ms"], [n |-> 2, unit |-> "s"], [n |-> 0, unit |-> "fast"] }
NoTime == [n |-> 0, unit |-> "absent"]

\* cv.positive_time_period_milliseconds: the period in milliseconds, or
\* Unset where it raises cv.Invalid.
positive_time_period_milliseconds(raw) ==
    IF raw.n < 0 THEN Unset
    ELSE CASE raw.unit = "ms" -> raw.n
           [] raw.unit = "s"  -> raw.n * 1000
           [] OTHER           -> Unset

\* Lines 185-192: intro_dur_sec, NoDur standing for None.
IntroDurSec(intro_dur_raw) ==
    IF intro_dur_raw = NoTime THEN NoDur
    ELSE LET parsed_ms == positive_time_period_milliseconds(intro_dur_raw)
         IN  IF parsed_ms = Unset THEN NoDur ELSE Seconds(parsed_ms)

\* Lines 176-180: the loop reads the name of every user-defined
\* addressable_cfx effect and stores none of them: user_names stays empty.
UserNames(user_effects) ==
    { user_effects[i].name : i \in {} }

\* Lines 195-201: the bundled entries appended to the user's list.
RECURSIVE AppendBundled(_, _, _)
AppendBundled(user_effects, entries, user_names) ==
    IF entries = <<>> THEN user_effects
    ELSE LET entry == Head(entries)
             take  == /\ entry.kind = "addressable_cfx"
                      /\ entry.name # ""
                      /\ entry.name \notin user_names
         IN  AppendBundled(IF take THEN Append(user_effects, entry) ELSE user_effects,
                           Tail(entries), user_names)

ExemptIds_short == {158, 159}
ExemptIds == {158, 159, 161}

\* Lines 204-221 with the `not in effect_data` tests left out.
ApplyGlobal_overwrite(eff, use_intro, use_outro, intro_dur_sec) ==
    IF eff.kind # "addressable_cfx" THEN eff
    ELSE IF eff.effect_id \in ExemptIds THEN eff
    ELSE [ eff EXCEPT
             !.set_intro = IF use_intro # Unset THEN use_intro ELSE @,
             !.set_outro = IF use_outro # Unset THEN use_outro ELSE @,
             !.set_intro_dur = IF intro_dur_sec # NoDur THEN intro_dur_sec ELSE @,
             !.set_outro_dur = IF intro_dur_sec # NoDur THEN intro_dur_sec ELSE @ ]

\* Lines 204-221: one effect after the global intro/outro was applied to it.
ApplyGlobal(eff, use_intro, use_outro, intro_dur_sec) ==
    IF eff.kind # "addressable_cfx" THEN eff
    ELSE IF eff.effect_id \in ExemptIds THEN eff
    ELSE [ eff EXCEPT
             !.set_intro = IF use_intro # Unset /\ @ = Unset THEN use_intro ELSE @,
             !.set_outro = IF use_outro # Unset /\ @ = Unset THEN use_outro ELSE @,
             !.set_intro_dur = IF intro_dur_sec # NoDur /\ @ = NoDur THEN intro_dur_sec ELSE @,
             !.set_outro_dur = IF intro_dur_sec # NoDur /\ @ = NoDur THEN intro_dur_sec ELSE @ ]

\* config["effects"] of the configuration _inject_all_effects returns.
inject_all_effects(config, yaml_entries) ==
    IF ~config.all_effects THEN config.effects
    ELSE LET user_names    == UserNames(config.effects)
             intro_dur_sec == IntroDurSec(config.intro_dur)
             user_effects  == AppendBundled(config.effects, yaml_entries, user_names)
         IN  [ i \in 1..Len(user_effects) |->
                 ApplyGlobal(user_effects[i], config.use_intro, config.use_outro,
                             intro_dur_sec) ]

InjInit ==
    /\ inj_config \in [ all_effects : BOOLEAN,
                        use_intro : {Unset, 0},
                        use_outro : {Unset, 2},
                        intro_dur : TimeInputs \cup {NoTime},
                        effects : {<<>>} ]
    /\ bundled \in { [ i \in 1..k |-> BundledEntry(i) ] : k \in 0..MaxBundled }
    /\ inj_pc = "declared"
    /\ inj_out = <<>>
    /\ injRestIdle

\* The user declares one more effect under `effects:`.
DeclareEffect ==
    /\ inj_pc = "declared"
    /\ Len(inj_config.effects) < MaxUserEffects
    /\ \E eff \in UserEffectInputs :
           inj_config' = [inj_config EXCEPT !.effects = Append(@, eff)]
    /\ UNCHANGED <<bundled, inj_pc, inj_out>>
    /\ UNCHANGED injRest

\* CONFIG_SCHEMA runs _inject_all_effects over the raw configuration.
InjectAllEffects ==
    /\ inj_pc = "declared"
    /\ inj_out' = inject_all_effects(inj_config, bundled)
    /\ inj_pc' = "injected"
    /\ UNCHANGED <<inj_config, bundled>>
    /\ UNCHANGED injRest

InjNext == DeclareEffect \/ InjectAllEffects

SpecInject == InjInit /\ [][InjNext]_vars

(***************************************************************************)
(* cfx_light and chimera_light: CONFIG_SCHEMA and to_code                  *)
(***************************************************************************)

\* Bound of the declared inputs.
MaxSegDefs == 2         \* longest segment list handed to to_code

\* str.upper() on the strings the inputs use.
Upper(str) ==
    CASE str = "bgr" -> "BGR"
      [] str = "sk6812" -> "SK6812"
      [] OTHER -> str

\* Python values that codegen tells apart: a plain str, the EnumValue that
\* cv.enum returns, and a MockObj naming a C++ expression.
PyStr(str) == [py |-> "str", str |-> str, enum_value |-> ""]
PyEnumValue(str, member) == [py |-> "EnumValue", str |-> str, enum_value |-> member]
PyMockObj(member) == [py |-> "MockObj", str |-> "", enum_value |-> member]
PyNone == [py |-> "None", str |-> "", enum_value |-> ""]

\* cg.add renders an argument: an EnumValue becomes its enum_value, a MockObj
\* its expression, a str a C++ string literal.
safe_exp(obj) ==
    CASE obj.py = "EnumValue" -> [kind |-> "enum", v |-> obj.enum_value]
      [] obj.py = "MockObj"   -> [kind |-> "enum", v |-> obj.enum_value]
      [] OTHER                -> [kind |-> "string", v |-> obj.str]

Call(fn, args) == [fn |-> fn, args |-> args]

CFX_CHIPSETS == {"WS2812X", "SK6812", "WS2811"}
CHIMERA_CHIPSETS == {"WS2812B", "SK6812", "WS2811", "WS2813"}

RGBW_CHIPSETS == {"SK6812"}

RGB_ORDERS ==
    [ name \in {"RGB", "RBG", "GRB", "GBR", "BGR", "BRG"} |->
        CASE name = "RGB" -> "ORDER_RGB"
          [] name = "RBG" -> "ORDER_RBG"
          [] name = "GRB" -> "ORDER_GRB"
          [] name = "GBR" -> "ORDER_GBR"
          [] name = "BGR" -> "ORDER_BGR"
          [] OTHER        -> "ORDER_BRG" ]

\* cfx_light: DEFAULT_ORDER.get(chipset_name, RGBOrder.ORDER_GRB), enum members.
CFX_DEFAULT_ORDER(chipset) ==
    IF chipset = "WS2811" THEN PyMockObj("ORDER_RGB") ELSE PyMockObj("ORDER_GRB")

\* chimera_light: DEFAULT_ORDER.get(chipset, "GRB"), plain strings.
CHIMERA_DEFAULT_ORDER(chipset) ==
    IF chipset = "WS2811" THEN PyStr("RGB") ELSE PyStr("GRB")

\* cv.one_of(*allowed, upper=True): the upper-cased value, "" where it raises.
one_of_upper(value, allowed) ==
    IF Upper(value) \in allowed THEN Upper(value) ELSE ""

\* cv.enum(mapping, upper=True): an EnumValue, PyNone where it raises.
cv_enum(mapping, value) ==
    IF Upper(value) \in DOMAIN mapping
    THEN PyEnumValue(Upper(value), mapping[Upper(value)])
    ELSE PyNone

\* SEGMENT_SCHEMA over one declared segment.
SegmentSchema(seg) ==
    [ id |-> seg.id, start |-> seg.start, stop |-> seg.stop, mirror |-> seg.mirror,
      use_intro |-> seg.use_intro, use_outro |-> seg.use_outro,
      intro_dur |-> IF seg.intro_dur = NoTime THEN Unset
                    ELSE positive_time_period_milliseconds(seg.intro_dur) ]

\* cfx_light CONFIG_SCHEMA: the validated configuration; `keys` holds the
\* optional keys present in it (given, or filled with a default).
CfxLightSchema(raw) ==
    [ keys |-> { k \in {"rgb_order", "is_rgbw", "use_intro", "use_outro", "intro_dur",
                        "max_refresh_rate", "visualizer_ip", "segments"} :
                   CASE k = "rgb_order" -> raw.rgb_order # "absent"
                     [] k = "is_rgbw" -> raw.is_rgbw # "absent"
                     [] k = "use_intro" -> raw.use_intro # Unset
                     [] k = "use_outro" -> raw.use_outro # Unset
                     [] k = "intro_dur" -> raw.intro_dur # NoTime
                     [] k = "max_refresh_rate" -> raw.max_refresh_rate # Unset
                     [] k = "visualizer_ip" -> raw.visualizer_ip # "absent"
                     [] OTHER -> raw.segments # <<>> }
              \cup {"is_wrgb", "rmt_symbols", "visualizer_port"},
      pin |-> raw.pin,
      num_leds |-> raw.num_leds,
      chipset |-> one_of_upper(raw.chipset, CFX_CHIPSETS),
      rgb_order |-> IF raw.rgb_order = "absent" THEN PyNone
                    ELSE cv_enum(RGB_ORDERS, raw.rgb_order),
      is_rgbw |-> raw.is_rgbw = "true",
      is_wrgb |-> raw.is_wrgb = "true",
      use_intro |-> raw.use_intro,
      use_outro |-> raw.use_outro,
      intro_dur |-> IF raw.intro_dur = NoTime THEN Unset
                    ELSE positive_time_period_milliseconds(raw.intro_dur),
      max_refresh_rate |-> raw.max_refresh_rate,
      rmt_symbols |-> 0,
      visualizer_ip |-> raw.visualizer_ip,
      visualizer_port |-> 7777,
      segments |-> [ i \in 1..Len(raw.segments) |-> SegmentSchema(raw.segments[i]) ] ]

\* The configurations cfx_light CONFIG_SCHEMA rejects with cv.Invalid.
CfxLightInvalid(raw) ==
    LET config == CfxLightSchema(raw)
    IN  \/ config.chipset = ""
        \/ raw.rgb_order # "absent" /\ config.rgb_order = PyNone
        \/ validate_segments(config.segments, config.num_leds) # "accepted"

\* chimera_light: _default_rgb_order, run after the schema.
default_rgb_order(config) ==
    IF "rgb_order" \notin config.keys
    THEN [ config EXCEPT !.keys = @ \cup {"rgb_order"},
                         !.rgb_order = CHIMERA_DEFAULT_ORDER(config.chipset) ]
    ELSE config

\* chimera_light CONFIG_SCHEMA = cv.All(schema, _default_rgb_order).
ChimeraLightSchema(raw) ==
    default_rgb_order(
        [ keys |-> { k \in {"rgb_order", "max_refresh_rate"} :
                       IF k = "rgb_order" THEN raw.rgb_order # "absent"
                       ELSE raw.max_refresh_rate # Unset }
                   \cup {"rmt_symbols"},
          pin |-> raw.pin,
          num_leds |-> raw.num_leds,
          chipset |-> one_of_upper(raw.chipset, CHIMERA_CHIPSETS),
          rgb_order |-> IF raw.rgb_order = "absent" THEN PyNone
                        ELSE cv_enum(RGB_ORDERS, raw.rgb_order),
          max_refresh_rate |-> raw.max_refresh_rate,
          rmt_symbols |-> 0 ])

ChimeraLightInvalid(raw) ==
    \/ one_of_upper(raw.chipset, CHIMERA_CHIPSETS) = ""
    \/ raw.rgb_order # "absent" /\ cv_enum(RGB_ORDERS, raw.rgb_order) = PyNone

\* cfx_light to_code, lines 274-279: explicit override > auto-detect.
IsRgbw_auto(config) == config.chipset \in RGBW_CHIPSETS
IsRgbw(config) ==
    IF "is_rgbw" \in config.keys THEN config.is_rgbw
    ELSE config.chipset \in RGBW_CHIPSETS

\* cfx_light to_code, lines 284-289.
RgbOrder(config) ==
    IF "rgb_order" \in config.keys THEN config.rgb_order
    ELSE CFX_DEFAULT_ORDER(config.chipset)

\* cfx_light to_code, lines 303-310: the strip-level default setters.
DefaultCalls(config) ==
    (IF "use_intro" \in config.keys
     THEN <<Call("set_default_intro_mode", <<config.use_intro>>)>> ELSE <<>>)
    \o (IF "use_outro" \in config.keys
        THEN <<Call("set_default_outro_mode", <<config.use_outro>>)>> ELSE <<>>)
    \o (IF "intro_dur" \in config.keys
        THEN << Call("set_default_intro_dur", <<Seconds(config.intro_dur)>>),
                Call("set_default_outro_dur", <<Seconds(config.intro_dur)>>) >>
        ELSE <<>>)

\* cfx_light to_code, lines 317-322: seg.get(key, 0) and the duration.
SegIntro_zero(seg) == 0
SegIntro(seg) == IF seg.use_intro # Unset THEN seg.use_intro ELSE 0
SegOutro(seg) == IF seg.use_outro # Unset THEN seg.use_outro ELSE 0
SegIntroDur(seg) == IF seg.intro_dur # Unset THEN Seconds(seg.intro_dur) ELSE Seconds(0)

\* Lines 312-329 with the segments taken last to first.
SegmentCalls_reversed(config) ==
    [ i \in 1..Len(config.segments) |->
        LET seg == config.segments[Len(config.segments) + 1 - i]
        IN  Call("add_segment_def",
                 << seg.id, seg.start, seg.stop, seg.mirror,
                    SegIntro(seg), SegOutro(seg), SegIntroDur(seg), SegIntroDur(seg) >>) ]

\* cfx_light to_code, lines 312-329.
SegmentCalls(config) ==
    [ i \in 1..Len(config.segments) |->
        LET seg == config.segments[i]
        IN  Call("add_segment_def",
                 << seg.id, seg.start, seg.stop, seg.mirror,
                    SegIntro(seg), SegOutro(seg), SegIntroDur(seg), SegIntroDur(seg) >>) ]

\* cfx_light to_code: every call it emits, in order.
CfxLightToCode(config) ==
    << Call("register_light", <<>>),
       Call("register_component", <<>>),
       Call("set_pin", <<config.pin>>),
       Call("set_num_leds", <<config.num_leds>>),
       Call("set_chipset", <<config.chipset>>),
       Call("set_is_rgbw", <<IsRgbw(config)>>),
       Call("set_is_wrgb", <<config.is_wrgb>>),
       Call("set_rgb_order", <<safe_exp(RgbOrder(config))>>),
       Call("set_rmt_symbols", <<config.rmt_symbols>>) >>
    \o (IF "max_refresh_rate" \in config.keys
        THEN <<Call("set_max_refresh_rate", <<config.max_refresh_rate>>)>> ELSE <<>>)
    \o (IF "visualizer_ip" \in config.keys
        THEN << Call("set_visualizer_ip", <<config.visualizer_ip>>),
                Call("set_visualizer_port", <<config.visualizer_port>>) >>
        ELSE <<>>)
    \o DefaultCalls(config)
    \o SegmentCalls(config)

\* chimera_light to_code: every call it emits, in order.
ChimeraLightToCode(config) ==
    << Call("register_light", <<>>),
       Call("register_component", <<>>),
       Call("set_pin", <<config.pin>>),
       Call("set_num_leds", <<config.num_leds>>),
       Call("set_chipset", <<config.chipset>>),
       Call("set_is_rgbw", <<config.chipset \in RGBW_CHIPSETS>>),
       Call("set_rgb_order", <<safe_exp(config.rgb_order)>>),
       Call("set_rmt_symbols", <<config.rmt_symbols>>) >>
    \o (IF "max_refresh_rate" \in config.keys
        THEN <<Call("set_max_refresh_rate", <<config.max_refresh_rate>>)>> ELSE <<>>)

\* The rgb_order strings a user may write.
RgbOrderInputs == {"absent", "RGB", "RBG", "GRB", "GBR", "BGR", "BRG", "bgr", "XYZ"}

\* The segments a user may declare at position p: no override, an intro
\* override only, or every override.
SegDefInputs(p) ==
    { [ id |-> p, start |-> p - 1, stop |-> p, mirror |-> m,
        use_intro |-> o[1], use_outro |-> o[2], intro_dur |-> o[3] ] :
        m \in {FALSE},
        o \in { <<Unset, Unset, NoTime>>,
                <<4, Unset, NoTime>>,
                <<4, 5, [n |-> 2, unit |-> "s"]>> } }

LtInit ==
    /\ \/ /\ lt_component = "cfx_light"
          /\ lt_raw \in [ pin : {5}, num_leds : {30},
                          chipset : CFX_CHIPSETS,
                          rgb_order : RgbOrderInputs,
                          is_rgbw : {"absent", "true", "false"},
                          is_wrgb : {"absent", "true"},
                          use_intro : {Unset, 2},
                          use_outro : {Unset, 3},
                          intro_dur : {NoTime, [n |-> 1500, unit |-> "ms"]},
                          max_refresh_rate : {Unset, 16000},
                          visualizer_ip : {"absent", "10.0.0.2"},
                          segments : {<<>>} ]
       \/ /\ lt_component = "chimera_light"
          /\ lt_raw \in [ pin : {5}, num_leds : {30},
                          chipset : CHIMERA_CHIPSETS \cup {"sk6812", "WS2812X"},
                          rgb_order : RgbOrderInputs,
                          max_refresh_rate : {Unset, 16000} ]
    /\ lt_config = <<>>
    /\ lt_pc = "raw"
    /\ lt_calls = <<>>
    /\ ltRestIdle

\* The user declares one more segment of a cfx_light.
DeclareSegmentDef ==
    /\ lt_pc = "raw"
    /\ lt_component = "cfx_light"
    /\ Len(lt_raw.segments) < MaxSegDefs
    /\ \E seg \in SegDefInputs(Len(lt_raw.segments) + 1) :
           lt_raw' = [lt_raw EXCEPT !.segments = Append(@, seg)]
    /\ UNCHANGED <<lt_component, lt_config, lt_pc, lt_calls>>
    /\ UNCHANGED ltRest

\* cfx_light CONFIG_SCHEMA validates the configuration.
CfxLightValidate ==
    /\ lt_pc = "raw"
    /\ lt_component = "cfx_light"
    /\ IF CfxLightInvalid(lt_raw)
       THEN lt_pc' = "invalid" /\ lt_config' = <<>>
       ELSE lt_pc' = "valid" /\ lt_config' = CfxLightSchema(lt_raw)
    /\ UNCHANGED <<lt_component, lt_raw, lt_calls>>
    /\ UNCHANGED ltRest

\* cfx_light to_code runs over the validated configuration.
CfxLightGenerate ==
    /\ lt_pc = "valid"
    /\ lt_component = "cfx_light"
    /\ lt_calls' = CfxLightToCode(lt_config)
    /\ lt_pc' = "done"
    /\ UNCHANGED <<lt_component, lt_raw, lt_config>>
    /\ UNCHANGED ltRest

\* chimera_light CONFIG_SCHEMA validates the configuration.
ChimeraLightValidate ==
    /\ lt_pc = "raw"
    /\ lt_component = "chimera_light"
    /\ IF ChimeraLightInvalid(lt_raw)
       THEN lt_pc' = "invalid" /\ lt_config' = <<>>
       ELSE lt_pc' = "valid" /\ lt_config' = ChimeraLightSchema(lt_raw)
    /\ UNCHANGED <<lt_component, lt_raw, lt_calls>>
    /\ UNCHANGED ltRest

\* chimera_light to_code runs over the validated configuration.
ChimeraLightGenerate ==
    /\ lt_pc = "valid"
    /\ lt_component = "chimera_light"
    /\ lt_calls' = ChimeraLightToCode(lt_config)
    /\ lt_pc' = "done"
    /\ UNCHANGED <<lt_component, lt_raw, lt_config>>
    /\ UNCHANGED ltRest

LtNext ==
    \/ DeclareSegmentDef
    \/ CfxLightValidate
    \/ CfxLightGenerate
    \/ ChimeraLightValidate
    \/ ChimeraLightGenerate

SpecLight == LtInit /\ [][LtNext]_vars

(***************************************************************************)
(* cfx_effect: cfx_control to_code                                         *)
(***************************************************************************)

PALETTE_OPTIONS ==
    << "Default", "Aurora", "Forest", "Halloween", "Rainbow", "Fire", "Sunset", "Ice",
       "Party", "Pastel", "Ocean", "HeatColors", "Sakura", "Rivendell", "Cyberpunk",
       "OrangeTeal", "Christmas", "RedBlue", "Matrix", "SunnyGold", "Solid", "Fairy",
       "Twilight", "Smart Random" >>

INTRO_OPTIONS == <<"None", "Wipe", "Fade", "Center", "Glitter", "Meteor Wipe">>

EXCLUDE_SPEED == 1
EXCLUDE_INTENSITY == 2
EXCLUDE_PALETTE == 3
EXCLUDE_MIRROR == 4
EXCLUDE_INTRO == 5
EXCLUDE_TIMER == 6
EXCLUDE_AUTOTUNE == 7
EXCLUDE_FORCE_WHITE == 8
EXCLUDE_DEBUG == 9
EXCLUDE_OUTRO == 10

\* cv.int_range(min=1, max=10), the ids `exclude` may hold.
ExcludeIds == 1..10

\* A generated entity: its id suffix, its name, what register_number /
\* register_select / register_switch was given, the state published and the
\* CFXControl setter it is bound with.  Numbers are kept in tenths, so that
\* 0.5 and 0.1 are exact.
Tenths_trunc(whole, tenth) == whole * 10
Tenths(whole, tenth) == whole * 10 + tenth

NumberEntity(key, name, min, max, step, init, setter) ==
    [ key |-> key, type |-> "number", name |-> name,
      min_value |-> min, max_value |-> max, step |-> step, initial |-> init,
      options |-> <<>>, option |-> "", state |-> FALSE, restore_mode |-> "",
      publish |-> "publish_state", setter |-> setter ]

SelectEntity(key, name, options, init, setter) ==
    [ key |-> key, type |-> "select", name |-> name,
      min_value |-> 0, max_value |-> 0, step |-> 0, initial |-> 0,
      options |-> options, option |-> init, state |-> FALSE, restore_mode |-> "",
      publish |-> "publish_state", setter |-> setter ]

\* A switch restores ON exactly when its initial value is truthy.
SwitchEntity(key, name, init, publish, setter) ==
    [ key |-> key, type |-> "switch", name |-> name,
      min_value |-> 0, max_value |-> 0, step |-> 0, initial |-> 0,
      options |-> <<>>, option |-> "", state |-> init,
      restore_mode |-> IF ~init THEN "SWITCH_RESTORE_DEFAULT_OFF"
                       ELSE "SWITCH_RESTORE_DEFAULT_ON",
      publish |-> publish, setter |-> setter ]

\* is_included(id): `exclude` is a list, only ever tested for membership.
IsIncluded_all(exclude, id) == TRUE
IsIncluded(exclude, id) == id \notin exclude

\* defaults = config.get(CONF_DEFAULTS, {}): a missing key reads as {}.
NoDefaults == [present |-> FALSE, kind |-> "dict", force_white |-> "absent"]
Defaults(config) ==
    IF config.defaults.present THEN config.defaults ELSE NoDefaults

\* lconf.get(key, False) on a validated light configuration.
LconfIsRgbw(lconf) == IF "is_rgbw" \in lconf.keys THEN lconf.is_rgbw ELSE FALSE

\* Lines 87-96: has_white_channel.
HasWhiteChannel(config, lights) ==
    \E i \in 1..Len(lights) :
        /\ \E k \in 1..Len(config.light_id) : lights[i].id = config.light_id[k]
        /\ \/ LconfIsRgbw(lights[i])
           \/ lights[i].is_wrgb
           \/ lights[i].chipset = "SK6812"

\* Lines 98-285: the entities generated before Force White.
EntitiesBeforeForceWhite(config) ==
    LET name == config.name
        ex   == config.exclude
    IN  (IF IsIncluded(ex, EXCLUDE_SPEED)
         THEN <<NumberEntity("speed", <<name, " Speed">>,
                             Tenths(0, 0), Tenths(255, 0), Tenths(1, 0), Tenths(128, 0),
                             "set_speed")>>
         ELSE <<>>)
        \o (IF IsIncluded(ex, EXCLUDE_INTENSITY)
            THEN <<NumberEntity("intensity", <<name, " Intensity">>,
                                Tenths(0, 0), Tenths(255, 0), Tenths(1, 0), Tenths(128, 0),
                                "set_intensity")>>
            ELSE <<>>)
        \o (IF IsIncluded(ex, EXCLUDE_PALETTE)
            THEN <<SelectEntity("palette", <<name, " Palette">>, PALETTE_OPTIONS,
                                "Default", "set_palette")>>
            ELSE <<>>)
        \o (IF IsIncluded(ex, EXCLUDE_MIRROR)
            THEN <<SwitchEntity("mirror", <<name, " Mirror">>, FALSE,
                                "publish_state", "set_mirror")>>
            ELSE <<>>)
        \o (IF IsIncluded(ex, EXCLUDE_INTRO)
            THEN <<SelectEntity("intro", <<name, " Intro">>, INTRO_OPTIONS,
                                "None", "set_intro_effect")>>
            ELSE <<>>)
        \o (IF IsIncluded(ex, EXCLUDE_INTRO)
            THEN <<NumberEntity("intro_dur", <<name, " Intro Duration">>,
                                Tenths(0, 5), Tenths(10, 0), Tenths(0, 1), Tenths(1, 0),
                                "set_intro_duration")>>
            ELSE <<>>)
        \o (IF IsIncluded(ex, EXCLUDE_INTRO)
            THEN <<SwitchEntity("intro_pal", <<name, " Intro Use Palette">>, FALSE,
                                "publish_state", "set_intro_use_palette")>>
            ELSE <<>>)
        \o (IF IsIncluded(ex, EXCLUDE_OUTRO)
            THEN <<SelectEntity("outro", <<name, " Outro">>, INTRO_OPTIONS,
                                "None", "set_outro_effect")>>
            ELSE <<>>)
        \o (IF IsIncluded(ex, EXCLUDE_OUTRO)
            THEN <<NumberEntity("outro_dur", <<name, " Outro Duration">>,
                                Tenths(0, 5), Tenths(10, 0), Tenths(0, 1), Tenths(1, 0),
                                "set_outro_duration")>>
            ELSE <<>>)
        \o (IF IsIncluded(ex, EXCLUDE_TIMER)
            THEN <<NumberEntity("timer", <<name, " Timer (min)">>,
                                Tenths(0, 0), Tenths(360, 0), Tenths(1, 0), Tenths(0, 0),
                                "set_timer")>>
            ELSE <<>>)
        \o (IF IsIncluded(ex, EXCLUDE_AUTOTUNE)
            THEN <<SwitchEntity("autotune", <<name, " Autotune">>, FALSE,
                                "write_state", "set_autotune")>>
            ELSE <<>>)

\* Lines 304-319: the Debug switch.
DebugEntities(config) ==
    IF IsIncluded(config.exclude, EXCLUDE_DEBUG)
    THEN <<SwitchEntity("debug", <<config.name, " Debug">>, FALSE,
                        "publish_state", "set_debug")>>
    ELSE <<>>

\* cfx_control to_code: how it ended and the entities it generated.  Force
\* White reads defaults.get(...), which raises AttributeError on None.
ControlToCode(config, lights) ==
    LET defaults    == Defaults(config)
        force_white == /\ IsIncluded(config.exclude, EXCLUDE_FORCE_WHITE)
                       /\ HasWhiteChannel(config, lights)
        before      == EntitiesBeforeForceWhite(config)
    IN  IF force_white /\ defaults.kind = "none"
        THEN [status |-> "AttributeError", entities |-> before]
        ELSE [ status |-> "done",
               entities |->
                   before
                   \o (IF force_white
                       THEN <<SwitchEntity("force_white", <<config.name, " Force White">>,
                                           defaults.force_white = "true",
                                           "publish_state", "set_force_white")>>
                       ELSE <<>>)
                   \o DebugEntities(config) ]

\* What `defaults:` may hold: cv.Any(dict, None).
DefaultsInputs ==
    { NoDefaults,
      [present |-> TRUE, kind |-> "none", force_white |-> "absent"],
      [present |-> TRUE, kind |-> "dict", force_white |-> "absent"],
      [present |-> TRUE, kind |-> "dict", force_white |-> "true"] }

\* A validated cfx_light configuration, as far as cfx_control reads it.
Lconf(id, chipset, is_rgbw, is_wrgb) ==
    [ id |-> id, chipset |-> chipset,
      keys |-> IF is_rgbw = "absent" THEN {"is_wrgb"} ELSE {"is_wrgb", "is_rgbw"},
      is_rgbw |-> is_rgbw = "true", is_wrgb |-> is_wrgb ]

CtlInit ==
    /\ ctl_config \in [ name : {"Strip"},
                        light_id : {<<"strip1">>, <<"strip1", "strip2">>},
                        exclude : {{}},
                        defaults : {NoDefaults} ]
    /\ core_lights \in { << Lconf("strip2", "SK6812", "absent", FALSE),
                            Lconf("strip1", chipset, is_rgbw, is_wrgb) >> :
                            chipset \in {"WS2812X", "SK6812"},
                            is_rgbw \in {"absent", "true", "false"},
                            is_wrgb \in BOOLEAN }
    /\ ctl_pc = "declared"
    /\ ctl_entities = <<>>
    /\ ctlRestIdle

\* The user adds one more id to `exclude:`.
ExcludeParameter ==
    /\ ctl_pc = "declared"
    /\ \E id \in ExcludeIds \ ctl_config.exclude :
           ctl_config' = [ctl_config EXCEPT !.exclude = @ \cup {id}]
    /\ UNCHANGED <<core_lights, ctl_pc, ctl_entities>>
    /\ UNCHANGED ctlRest

\* The user writes a `defaults:` key.
DeclareDefaults ==
    /\ ctl_pc = "declared"
    /\ ~ctl_config.defaults.present
    /\ \E d \in DefaultsInputs \ {NoDefaults} :
           ctl_config' = [ctl_config EXCEPT !.defaults = d]
    /\ UNCHANGED <<core_lights, ctl_pc, ctl_entities>>
    /\ UNCHANGED ctlRest

\* cfx_control to_code runs over the validated configuration.
ControlGenerate ==
    /\ ctl_pc = "declared"
    /\ LET result == ControlToCode(ctl_config, core_lights)
       IN  /\ ctl_pc' = result.status
           /\ ctl_entities' = result.entities
    /\ UNCHANGED <<ctl_config, core_lights>>
    /\ UNCHANGED ctlRest

CtlNext == ExcludeParameter \/ DeclareDefaults \/ ControlGenerate

SpecControl == CtlInit /\ [][CtlNext]_vars

(***************************************************************************)
(* cfx_effect: the addressable_cfx effect and cfx_effect_to_code           *)
(***************************************************************************)

\* CFX_EFFECT_NAMES: the names of ids 0..52 and of ids 54..113; 53 has none.
EffectNames_0_52 ==
    << "Solid", "Blink", "Breathe", "Wipe", "Wipe Random", "Random Colors", "Sweep",
       "Dynamic", "Colorloop", "Rainbow",
       "Scan", "Scan Dual", "Fade", "Theater", "Theater Rainbow", "Running", "Saw",
       "Twinkle", "Dissolve", "Dissolve Rnd",
       "Sparkle", "Sparkle Dark", "Sparkle+", "Strobe", "Strobe Rainbow", "Strobe Mega",
       "Blink Rainbow", "Android", "Chase", "Chase Random",
       "Chase Rainbow", "Chase Flash", "Chase Flash Rnd", "Chase Rainbow White",
       "Colorful", "Traffic Light", "Sweep Random", "Running 2", "Aurora", "Stream",
       "Scanner", "Lighthouse", "Fireworks", "Rain", "Tetris", "Fire Flicker",
       "Gradient", "Loading", "Rolling Balls", "Fairy",
       "Two Dots", "Fairy Twinkle", "Running Dual" >>

EffectNames_54_113 ==
    << "Tri Chase", "Tri Wipe", "Tri Fade", "Lightning", "ICU", "Multi Comet",
       "Scanner Dual", "Stream 2", "Oscillate", "Pride 2015", "Juggle", "Palette",
       "Fire 2012", "Colorwaves", "BPM", "Fill Noise",
       "Noise 1", "Noise 2", "Noise 3", "Noise 4", "Colortwinkle", "Lake", "Meteor",
       "Meteor Smooth", "Railway", "Ripple",
       "Twinklefox", "Twinklecat", "Halloween Eyes", "Solid Pattern",
       "Solid Pattern Tri", "Spots", "Spots Fade", "Glitter", "Candle", "Starburst",
       "Fireworks Starburst", "Bouncing Balls", "Sinelon", "Sinelon Dual",
       "Sinelon Rainbow", "Popcorn", "Drip", "Plasma", "Percent", "Ripple Rainbow",
       "Heartbeat", "Ocean", "Candle Multi", "Solid Glitter", "Sunrise", "Phased",
       "Twinkleup", "Noise Pal", "Sine", "Phased Noise",
       "Flow", "Chunchun", "Dancing Shadows", "Washing Machine" >>

CFX_EFFECT_NAMES ==
    [ id \in (0..(Len(EffectNames_0_52) - 1))
             \cup ((Len(EffectNames_0_52) + 1)..(Len(EffectNames_0_52) + Len(EffectNames_54_113))) |->
        IF id < Len(EffectNames_0_52)
        THEN EffectNames_0_52[id + 1]
        ELSE EffectNames_54_113[id - Len(EffectNames_0_52)] ]

\* The name register_addressable_effect gives an effect that declares none.
DefaultEffectName == "CFX Effect"

\* cv.int_range(0, 255): the value, or Unset where it raises cv.Invalid.
int_range_0_255(value) ==
    IF value >= 0 /\ value <= 255 THEN value ELSE Unset

\* The optional keys of the effect schema: references to control entities
\* (cv.use_id) and fixed presets.
BoundKeys == <<"speed", "intensity", "palette", "mirror", "intro_effect", "intro_duration">>
PresetKeys == <<"set_speed", "set_intensity", "set_palette", "set_mirror">>

\* The setter cfx_effect_to_code calls for each optional key.
SetterOf(key) ==
    CASE key = "speed" -> "set_speed"
      [] key = "intensity" -> "set_intensity"
      [] key = "palette" -> "set_palette"
      [] key = "mirror" -> "set_mirror"
      [] key = "intro_effect" -> "set_intro_effect"
      [] key = "intro_duration" -> "set_intro_duration"
      [] key = "set_speed" -> "set_speed_preset"
      [] key = "set_intensity" -> "set_intensity_preset"
      [] key = "set_palette" -> "set_palette_preset"
      [] OTHER -> "set_mirror_preset"

\* The effect schema over one declared effect: the name defaults to
\* DefaultEffectName, update_interval to 16ms; `options` maps every optional
\* key that is present to its value.
EffectSchema(raw) ==
    [ name |-> IF raw.name = "absent" THEN DefaultEffectName ELSE raw.name,
      effect_id |-> int_range_0_255(raw.effect_id),
      update_interval |-> 16,
      options |-> raw.options ]

EffectInvalid(raw) ==
    \/ int_range_0_255(raw.effect_id) = Unset
    \/ \E key \in DOMAIN raw.options \cap {"set_speed", "set_intensity", "set_palette"} :
           int_range_0_255(raw.options[key]) = Unset

\* d[key] on a Python dict: the value, or the KeyError it raises.
KeyError == "KeyError"
DictLookup(d, key) == IF key \in DOMAIN d THEN d[key] ELSE KeyError

\* Lines 93-97: the name the effect object is created with.
EffectName_unguarded(name, eid) ==
    IF name = DefaultEffectName THEN DictLookup(CFX_EFFECT_NAMES, eid) ELSE name
EffectName(name, eid) ==
    IF name = DefaultEffectName
    THEN IF eid \in DOMAIN CFX_EFFECT_NAMES THEN DictLookup(CFX_EFFECT_NAMES, eid) ELSE name
    ELSE name

\* One setter call for every key of `keys`, in order, that the effect declares.
RECURSIVE OptionCalls(_, _)
OptionCalls(config, keys) ==
    IF keys = <<>> THEN <<>>
    ELSE (IF Head(keys) \in DOMAIN config.options
          THEN <<Call(SetterOf(Head(keys)), <<config.options[Head(keys)]>>)>>
          ELSE <<>>)
         \o OptionCalls(config, Tail(keys))

\* Lines 103-134: the bound controls are set first, the presets after them.
EffectSetters_presets_first(bound, presets) == presets \o bound
EffectSetters(bound, presets) == bound \o presets

\* cfx_effect_to_code: how it ended and the calls it emitted, in order.
cfx_effect_to_code(config) ==
    LET name == EffectName(config.name, config.effect_id)
    IN  IF name = KeyError
        THEN [status |-> KeyError, calls |-> <<>>]
        ELSE [ status |-> "done",
               calls |->
                   << Call("new_Pvariable", <<name>>),
                      Call("set_update_interval", <<config.update_interval>>),
                      Call("set_effect_id", <<config.effect_id>>) >>
                   \o EffectSetters(OptionCalls(config, BoundKeys),
                                    OptionCalls(config, PresetKeys)) ]

\* The engine's effect registry and its renderer: an id without an effect
\* function fails closed to the default solid-color effect.
EffectRegistry == DOMAIN CFX_EFFECT_NAMES
SolidEffect == 0
RenderFn(effect_id) ==
    IF effect_id \in EffectRegistry THEN effect_id ELSE SolidEffect

\* The effect ids a user may write: both ends of the registry, its hole at
\* 53, ids past its end and one past the schema's range.
EffectIdInputs == {0, 1, 52, 53, 54, 113, 114, 158, 255, 256}

\* What a user may write for each optional key.
OptionInputs(key) ==
    CASE key = "speed" -> {"strip_speed"}
      [] key = "intensity" -> {"strip_intensity"}
      [] key = "palette" -> {"strip_palette"}
      [] key = "mirror" -> {"strip_mirror"}
      [] key = "intro_effect" -> {"strip_intro"}
      [] key = "intro_duration" -> {"strip_intro_dur"}
      [] key = "set_speed" -> {200}
      [] key = "set_intensity" -> {0}
      [] key = "set_palette" -> {5}
      [] OTHER -> BOOLEAN

OptionKeys ==
    { BoundKeys[i] : i \in 1..Len(BoundKeys) } \cup { PresetKeys[i] : i \in 1..Len(PresetKeys) }

EffInit ==
    /\ eff_raw \in [ name : {"absent", "My Effect"},
                     effect_id : EffectIdInputs,
                     options : {<<>>} ]
    /\ eff_config = <<>>
    /\ eff_pc = "declared"
    /\ eff_calls = <<>>
    /\ eff_rendered = Unset
    /\ effRestIdle

\* The user writes one more optional key of the effect.
DeclareOption ==
    /\ eff_pc = "declared"
    /\ \E key \in OptionKeys \ DOMAIN eff_raw.options :
           \E value \in OptionInputs(key) :
               eff_raw' = [eff_raw EXCEPT !.options = @ @@ (key :> value)]
    /\ UNCHANGED <<eff_config, eff_pc, eff_calls, eff_rendered>>
    /\ UNCHANGED effRest

\* The registered effect schema validates the effect.
EffectValidate ==
    /\ eff_pc = "declared"
    /\ IF EffectInvalid(eff_raw)
       THEN eff_pc' = "invalid" /\ eff_config' = <<>>
       ELSE eff_pc' = "valid" /\ eff_config' = EffectSchema(eff_raw)
    /\ UNCHANGED <<eff_raw, eff_calls, eff_rendered>>
    /\ UNCHANGED effRest

\* cfx_effect_to_code runs over the validated effect.
EffectGenerate ==
    /\ eff_pc = "valid"
    /\ LET result == cfx_effect_to_code(eff_config)
       IN  /\ eff_pc' = result.status
           /\ eff_calls' = result.calls
    /\ UNCHANGED <<eff_raw, eff_config, eff_rendered>>
    /\ UNCHANGED effRest

\* The engine renders a frame of the effect, with the id set_effect_id gave it.
RenderFrame ==
    /\ eff_pc = "done"
    /\ \E i \in 1..Len(eff_calls) :
           /\ eff_calls[i].fn = "set_effect_id"
           /\ eff_rendered' = RenderFn(eff_calls[i].args[1])
    /\ eff_pc' = "rendering"
    /\ UNCHANGED <<eff_raw, eff_config, eff_calls>>
    /\ UNCHANGED effRest

EffNext == DeclareOption \/ EffectValidate \/ EffectGenerate \/ RenderFrame

SpecEffect == EffInit /\ [][EffNext]_vars

(***************************************************************************)
(* Engine: the per-segment transition state machine                        *)
(***************************************************************************)

\* Bound: the number of frames a configured intro or outro lasts.
BlendTicks == 2

\* The segments of the strip and the effects a switch may request; Off is
\* the request to turn the segment off (black).
TrSegments == {1, 2}
Off == Unset
SwitchInputs == {1, 38, Off}

\* The transition configuration of a segment: mode 0 is 'None'; a duration
\* of 0 is malformed and degrades to an immediate cut.
TransitionConfig(intro_mode, intro_duration, outro_mode, outro_duration) ==
    [ intro_mode |-> intro_mode, intro_duration |-> intro_duration,
      outro_mode |-> outro_mode, outro_duration |-> outro_duration ]

TransitionConfigInputs ==
    { TransitionConfig(0, 0, 0, 0),
      TransitionConfig(2, BlendTicks, 0, 0),
      TransitionConfig(2, BlendTicks, 3, BlendTicks),
      TransitionConfig(2, 0, 3, BlendTicks) }

HasIntro(cfg) == cfg.intro_mode # 0 /\ cfg.intro_duration > 0
HasOutro(cfg) == cfg.outro_mode # 0 /\ cfg.outro_duration > 0

\* A blend in progress: its mode, the frame it starts from and the effect
\* (or black) it moves toward.
Blend(mode, from, to) == [mode |-> mode, from |-> from, to |-> to]

\* A segment's state: the effect assigned to it, its transition (phase,
\* elapsed, duration) and the blends the renderer is applying.
SegState(phase, effect_id, elapsed, duration, blends) ==
    [ phase |-> phase, effect_id |-> effect_id, elapsed |-> elapsed,
      duration |-> duration, blends |-> blends ]

NoTransition == SegState("NONE", Off, 0, 0, <<>>)

\* A new blend replaces whatever blend was running.
StartBlend_stack(blends, blend) == Append(blends, blend)
StartBlend(blends, blend) == <<blend>>

\* What the segment shows when a new transition starts: the outgoing effect
\* of a running outro, else the assigned effect (black when there is none).
LastFrame(st) ==
    IF st.phase = "OUTRO" THEN st.blends[Len(st.blends)].from ELSE st.effect_id

\* NONE -> INTRO, or directly ACTIVE without a usable intro; Off ends in NONE.
StartEffect(cfg, st, effect_id) ==
    IF effect_id = Off THEN NoTransition
    ELSE IF HasIntro(cfg)
    THEN SegState("INTRO", effect_id, 0, cfg.intro_duration,
                  StartBlend(st.blends, Blend(cfg.intro_mode, LastFrame(st), effect_id)))
    ELSE SegState("ACTIVE", effect_id, 0, 0, <<>>)

\* ACTIVE -> OUTRO toward the next effect, or a cut without a usable outro.
StartOutro(cfg, st, effect_id) ==
    IF HasOutro(cfg)
    THEN SegState("OUTRO", effect_id, 0, cfg.outro_duration,
                  StartBlend(st.blends, Blend(cfg.outro_mode, st.effect_id, effect_id)))
    ELSE StartEffect(cfg, st, effect_id)

\* An effect switch request for one segment.
RequestSwitch(cfg, st, effect_id) ==
    CASE st.phase = "ACTIVE" /\ effect_id = st.effect_id -> st
      [] st.phase = "ACTIVE" /\ effect_id # st.effect_id -> StartOutro(cfg, st, effect_id)
      [] st.phase \in {"INTRO", "OUTRO"} -> StartEffect(cfg, st, effect_id)
      [] OTHER -> StartEffect(cfg, st, effect_id)

\* One frame of one segment: progress = elapsed / duration, done at >= 1.
Advance(cfg, st) ==
    IF st.phase \notin {"INTRO", "OUTRO"} THEN st
    ELSE IF st.elapsed + 1 < st.duration THEN [st EXCEPT !.elapsed = @ + 1]
    ELSE IF st.phase = "INTRO" THEN SegState("ACTIVE", st.effect_id, 0, 0, <<>>)
    ELSE StartEffect(cfg, NoTransition, st.effect_id)

TrInit ==
    /\ tr_config \in [TrSegments -> TransitionConfigInputs]
    /\ tr = [s \in TrSegments |-> NoTransition]
    /\ trRestIdle

\* The control surface requests an effect switch for one segment.
SwitchEffect ==
    /\ \E s \in TrSegments : \E effect_id \in SwitchInputs :
           tr' = [tr EXCEPT ![s] = RequestSwitch(tr_config[s], @, effect_id)]
    /\ UNCHANGED tr_config
    /\ UNCHANGED trRest

\* A scheduler tick: every segment's transition advances by one frame.
Tick ==
    /\ tr' = [s \in TrSegments |-> Advance(tr_config[s], tr[s])]
    /\ UNCHANGED tr_config
    /\ UNCHANGED trRest

TrNext == SwitchEffect \/ Tick

SpecTransition == TrInit /\ [][TrNext]_vars

(***************************************************************************)
(* Claims about segment validation                                         *)
(***************************************************************************)

SegValidated == seg_status # "pending"

\* The segment invariant of the data model, stated without the validator.
InBounds(seg, n) == 0 <= seg.start /\ seg.start < seg.stop /\ seg.stop <= n
Disjoint(a, b) == a.stop <= b.start \/ b.stop <= a.start
PairwiseDisjoint(segs) ==
    \A i, j \in 1..Len(segs) : i < j => Disjoint(segs[i], segs[j])
DistinctIds(segs) ==
    \A i, j \in 1..Len(segs) : i < j => segs[i].id # segs[j].id
SegmentInvariant(segs, n) ==
    /\ \A i \in 1..Len(segs) : InBounds(segs[i], n)
    /\ PairwiseDisjoint(segs)
    /\ DistinctIds(segs)
    /\ Len(segs) <= MAX_CFX_SEGMENTS

\* Segment i is the first one the per-segment loop objects to, and it is empty.
FirstFaultIsEmpty(segs, n, i) ==
    /\ segs[i].stop = segs[i].start
    /\ \A j \in 1..(i - 1) : InBounds(segs[j], n)
    /\ DistinctIds(SubSeq(segs, 1, i - 1))

\* C1: an accepted non-empty segment list satisfies the segment invariant
\* (0 <= start < stop <= num_leds, pairwise disjoint ranges, distinct ids, at
\* most 6 segments), so every list violating it is rejected; a zero-length
\* segment declared after good ones is rejected with the geometry error
\* 'stop must be > start'.
C1_AcceptedSegmentsValid ==
    /\ (seg_status = "accepted" /\ segments # <<>>)
           => SegmentInvariant(segments, num_leds)
    /\ (SegValidated /\ ~SegmentInvariant(segments, num_leds))
           => seg_status # "accepted"
    /\ \A i \in 1..Len(segments) :
           ( /\ SegValidated
             /\ Len(segments) <= MAX_CFX_SEGMENTS
             /\ FirstFaultIsEmpty(segments, num_leds, i) )
           => seg_status = "stop_must_be_gt_start"

\* An accepted list of three or more segments declared out of start order.
C1_Witness ==
    /\ seg_status = "accepted"
    /\ Len(segments) >= 3
    /\ segments[1].start > segments[2].start

\* C2: more than 6 segments are rejected with 'Too many segments', whatever
\* else is wrong with them, and exactly 6 otherwise valid segments are accepted.
C2_TooManySegments ==
    SegValidated =>
        /\ Len(segments) > MAX_CFX_SEGMENTS => seg_status = "too_many_segments"
        /\ seg_status = "too_many_segments" => Len(segments) > MAX_CFX_SEGMENTS
        /\ ( /\ Len(segments) = MAX_CFX_SEGMENTS
             /\ SegmentInvariant(segments, num_leds) ) => seg_status = "accepted"

\* Seven segments, one of them empty and two sharing an id: the count wins.
C2_Witness ==
    /\ seg_status = "too_many_segments"
    /\ Len(segments) = MAX_CFX_SEGMENTS + 1
    /\ \E i \in 1..Len(segments) : segments[i].stop <= segments[i].start
    /\ ~DistinctIds(segments)

(***************************************************************************)
(* Claims about _inject_all_effects                                        *)
(***************************************************************************)

Injected == inj_pc = "injected"
NumUser == Len(inj_config.effects)
IsCfx(eff) == eff.kind = "addressable_cfx"
SystemEffect(eff) == IsCfx(eff) /\ eff.effect_id \in {158, 159, 161}

\* C3: with all_effects the user-defined effects take priority: the returned
\* list never holds a user-defined addressable_cfx effect together with an
\* injected one of the same name, and the user-defined entries stay in place
\* ahead of the injected ones.
C3_UserEffectsTakePriority ==
    (Injected /\ inj_config.all_effects) =>
        /\ Len(inj_out) >= NumUser
        /\ \A i \in 1..NumUser :
               /\ inj_out[i].kind = inj_config.effects[i].kind
               /\ inj_out[i].name = inj_config.effects[i].name
        /\ \A i \in 1..NumUser : \A j \in (NumUser + 1)..Len(inj_out) :
               (IsCfx(inj_out[i]) /\ IsCfx(inj_out[j]))
                   => inj_out[i].name # inj_out[j].name

\* C4: with all_effects, whatever global use_intro / use_outro / intro_dur is
\* configured, every effect with effect_id 158, 159 or 161 comes out exactly as
\* it was declared (by the user or in the bundled file), and every other
\* addressable_cfx effect that lacks set_intro / set_outro gets the global one.
C4_SystemEffectsExempt ==
    (Injected /\ inj_config.all_effects) =>
        /\ Len(inj_out) >= NumUser
        /\ \A i \in 1..Len(inj_out) :
               SystemEffect(inj_out[i]) =>
                   IF i <= NumUser
                   THEN inj_out[i] = inj_config.effects[i]
                   ELSE \E k \in 1..Len(bundled) : inj_out[i] = bundled[k]
        /\ \A i \in 1..NumUser :
               SystemEffect(inj_config.effects[i]) => SystemEffect(inj_out[i])
        /\ \A i \in 1..Len(inj_out) :
               (IsCfx(inj_out[i]) /\ ~SystemEffect(inj_out[i])) =>
                   /\ inj_config.use_intro # Unset => inj_out[i].set_intro # Unset
                   /\ inj_config.use_outro # Unset => inj_out[i].set_outro # Unset

\* Global intro, outro and duration are all configured; a user-declared system
\* effect (161) and an injected one (158) stay bare while an ordinary effect
\* received the global intro.
C4_Witness ==
    /\ Injected
    /\ inj_config.all_effects
    /\ inj_config.use_intro # Unset
    /\ inj_config.use_outro # Unset
    /\ IntroDurSec(inj_config.intro_dur) # NoDur
    /\ \E i \in 1..NumUser :
           /\ inj_out[i].effect_id = 161
           /\ inj_out[i].set_intro = Unset
           /\ inj_out[i].set_outro_dur = NoDur
    /\ \E i \in (NumUser + 1)..Len(inj_out) :
           /\ inj_out[i].effect_id = 158
           /\ inj_out[i].set_intro = Unset
    /\ \E i \in 1..Len(inj_out) :
           /\ inj_out[i].effect_id = 38
           /\ inj_out[i].set_intro = inj_config.use_intro

(***************************************************************************)
(* Claims about cfx_light and chimera_light to_code                        *)
(***************************************************************************)

LtDone == lt_pc = "done"
CfxLightDone == LtDone /\ lt_component = "cfx_light"

\* The calls of one function among the emitted ones, in order.
CallsOf(fn) == SelectSeq(lt_calls, LAMBDA c : c.fn = fn)

\* The declared time period of a raw segment or strip, in milliseconds.
DeclaredMs(raw_time) == IF raw_time.unit = "s" THEN raw_time.n * 1000 ELSE raw_time.n

\* C5 as claimed: each add_segment_def receives the segment's own use_intro /
\* use_outro / intro_dur when the segment sets them and the strip-level value
\* (root use_intro / use_outro / intro_dur) when it leaves them unset.
C5_SegmentInheritsStripDefault ==
    CfxLightDone =>
        /\ Len(CallsOf("add_segment_def")) = Len(lt_raw.segments)
        /\ \A i \in 1..Len(lt_raw.segments) :
               LET seg  == lt_raw.segments[i]
                   args == CallsOf("add_segment_def")[i].args
               IN  /\ args[5] = IF seg.use_intro # Unset THEN seg.use_intro
                                 ELSE IF lt_raw.use_intro # Unset THEN lt_raw.use_intro
                                 ELSE 0
                   /\ args[6] = IF seg.use_outro # Unset THEN seg.use_outro
                                 ELSE IF lt_raw.use_outro # Unset THEN lt_raw.use_outro
                                 ELSE 0
                   /\ args[7] = IF seg.intro_dur # NoTime THEN Seconds(DeclaredMs(seg.intro_dur))
                                 ELSE IF lt_raw.intro_dur # NoTime
                                      THEN Seconds(DeclaredMs(lt_raw.intro_dur))
                                 ELSE Seconds(0)

\* C5 amended: each add_segment_def receives the segment's own use_intro /
\* use_outro / intro_dur (in seconds, as both durations) when the segment sets
\* them, and 0 / 0 / 0.0 when it leaves them unset, whatever the strip-level
\* values are.
C5_SegmentOverrideOrZero ==
    CfxLightDone =>
        /\ Len(CallsOf("add_segment_def")) = Len(lt_raw.segments)
        /\ \A i \in 1..Len(lt_raw.segments) :
               LET seg  == lt_raw.segments[i]
                   args == CallsOf("add_segment_def")[i].args
               IN  /\ args[1] = seg.id
                   /\ args[5] = IF seg.use_intro # Unset THEN seg.use_intro ELSE 0
                   /\ args[6] = IF seg.use_outro # Unset THEN seg.use_outro ELSE 0
                   /\ args[7] = IF seg.intro_dur # NoTime
                                 THEN Seconds(DeclaredMs(seg.intro_dur)) ELSE Seconds(0)
                   /\ args[8] = args[7]

\* Strip-level intro, outro and duration are set; one segment overrides all
\* three, another overrides none.
C5_Witness ==
    /\ CfxLightDone
    /\ lt_raw.use_intro # Unset /\ lt_raw.use_outro # Unset /\ lt_raw.intro_dur # NoTime
    /\ \E i, j \in 1..Len(lt_raw.segments) :
           /\ lt_raw.segments[i].use_intro = Unset
           /\ lt_raw.segments[i].intro_dur = NoTime
           /\ CallsOf("add_segment_def")[i].args[5] = 0
           /\ lt_raw.segments[j].use_intro # Unset
           /\ lt_raw.segments[j].intro_dur # NoTime
           /\ CallsOf("add_segment_def")[j].args[5] = lt_raw.segments[j].use_intro

\* C9: cfx_light to_code calls set_is_rgbw exactly once, with the configured
\* is_rgbw when the option is present and otherwise with (chipset = SK6812),
\* and calls set_is_wrgb once with the configured is_wrgb (default false).
C9_RgbwOverride ==
    CfxLightDone =>
        /\ Len(CallsOf("set_is_rgbw")) = 1
        /\ CallsOf("set_is_rgbw")[1].args[1] =
               IF lt_raw.is_rgbw # "absent" THEN lt_raw.is_rgbw = "true"
               ELSE Upper(lt_raw.chipset) = "SK6812"
        /\ Len(CallsOf("set_is_wrgb")) = 1
        /\ CallsOf("set_is_wrgb")[1].args[1] = (lt_raw.is_wrgb = "true")

\* SK6812 with an explicit is_rgbw: false is driven as RGB.
C9_Witness ==
    /\ CfxLightDone
    /\ lt_raw.chipset = "SK6812"
    /\ lt_raw.is_rgbw = "false"
    /\ lt_raw.is_wrgb = "true"
    /\ CallsOf("set_is_rgbw")[1].args[1] = FALSE
    /\ CallsOf("set_is_wrgb")[1].args[1] = TRUE

\* The six members of the RGBOrder enum.
RGBOrderMembers ==
    {"ORDER_RGB", "ORDER_RBG", "ORDER_GRB", "ORDER_GBR", "ORDER_BGR", "ORDER_BRG"}

\* C10: in cfx_light and chimera_light alike, set_rgb_order receives the
\* configured rgb_order, or the chipset default when it is omitted (RGB for
\* WS2811, GRB otherwise), and what it receives is always one of the six
\* RGBOrder enum members.
C10_RgbOrderIsEnumMember ==
    LtDone =>
        /\ Len(CallsOf("set_rgb_order")) = 1
        /\ LET arg == CallsOf("set_rgb_order")[1].args[1]
           IN  /\ arg.kind = "enum"
               /\ arg.v \in RGBOrderMembers
               /\ arg.v = IF lt_raw.rgb_order # "absent"
                          THEN RGB_ORDERS[Upper(lt_raw.rgb_order)]
                          ELSE IF Upper(lt_raw.chipset) = "WS2811"
                               THEN "ORDER_RGB" ELSE "ORDER_GRB"

(***************************************************************************)
(* Claims about cfx_control to_code                                        *)
(***************************************************************************)

CtlRan == ctl_pc # "declared"

\* The parameters of the control surface, their exclusion ids and the id
\* suffixes of the entities each one owns.
Parameters ==
    { "speed", "intensity", "palette", "mirror", "intro", "timer", "autotune",
      "force_white", "debug", "outro" }

ExclusionId(param) ==
    CASE param = "speed" -> 1
      [] param = "intensity" -> 2
      [] param = "palette" -> 3
      [] param = "mirror" -> 4
      [] param = "intro" -> 5
      [] param = "timer" -> 6
      [] param = "autotune" -> 7
      [] param = "force_white" -> 8
      [] param = "debug" -> 9
      [] OTHER -> 10

EntityKeys(param) ==
    CASE param = "intro" -> {"intro", "intro_dur", "intro_pal"}
      [] param = "outro" -> {"outro", "outro_dur"}
      [] OTHER -> {param}

ParameterOf(key) == CHOOSE param \in Parameters : key \in EntityKeys(param)

GeneratedKeys == { ctl_entities[i].key : i \in 1..Len(ctl_entities) }
Generated(param) == EntityKeys(param) \subseteq GeneratedKeys
NoneGenerated(param) == EntityKeys(param) \cap GeneratedKeys = {}

\* The entities of one to_code run as a set.
EntitySet(entities) == { entities[i] : i \in 1..Len(entities) }

\* The entities to_code generates for the same control with another
\* exclusion list.
EntitiesWithExclude(exclude) ==
    EntitySet(ControlToCode([ctl_config EXCEPT !.exclude = exclude], core_lights).entities)

\* A light the control references.
Referenced(lconf) ==
    \E k \in 1..Len(ctl_config.light_id) : lconf.id = ctl_config.light_id[k]

\* What cfx_control takes for a white channel: a referenced light that sets
\* is_rgbw or is_wrgb, or whose chipset is SK6812.
WhiteDetected ==
    \E i \in 1..Len(core_lights) :
        /\ Referenced(core_lights[i])
        /\ \/ "is_rgbw" \in core_lights[i].keys /\ core_lights[i].is_rgbw
           \/ core_lights[i].is_wrgb
           \/ core_lights[i].chipset = "SK6812"

\* The Force White step raises: it is reached with `defaults: null`.
ForceWhiteAborts ==
    /\ EXCLUDE_FORCE_WHITE \notin ctl_config.exclude
    /\ WhiteDetected
    /\ ctl_config.defaults.present /\ ctl_config.defaults.kind = "none"

\* C6 as claimed: for every exclusion set E the entities of a parameter are
\* generated if and only if its exclusion id is not in E, and the entities of
\* the other parameters are the same whether or not an id is in E.
C6_GeneratedIffNotExcluded ==
    CtlRan =>
        /\ \A param \in Parameters :
               /\ ExclusionId(param) \notin ctl_config.exclude => Generated(param)
               /\ ExclusionId(param) \in ctl_config.exclude => NoneGenerated(param)
        /\ \A id \in ExcludeIds :
               LET toggled == IF id \in ctl_config.exclude
                              THEN ctl_config.exclude \ {id}
                              ELSE ctl_config.exclude \cup {id}
               IN  { e \in EntitiesWithExclude(toggled) : ExclusionId(ParameterOf(e.key)) # id }
                   = { e \in EntitySet(ctl_entities) : ExclusionId(ParameterOf(e.key)) # id }

\* C6 amended: for every exclusion set E no entity of an excluded parameter is
\* generated; the entities of speed, intensity, palette, mirror, intro, outro,
\* timer and autotune are generated if and only if the parameter's id is not
\* in E; Force White is generated if and only if 8 is not in E, a white channel
\* was detected and `defaults` is not null; Debug is generated if and only if 9
\* is not in E and to_code did not abort at Force White; and every generated
\* entity is the one generated when nothing, or only Force White, is excluded.
C6_ExclusionHonoured ==
    CtlRan =>
        /\ \A param \in Parameters :
               ExclusionId(param) \in ctl_config.exclude => NoneGenerated(param)
        /\ \A param \in Parameters \ {"force_white", "debug"} :
               ExclusionId(param) \notin ctl_config.exclude => Generated(param)
        /\ Generated("force_white") <=>
               /\ EXCLUDE_FORCE_WHITE \notin ctl_config.exclude
               /\ WhiteDetected
               /\ ~ForceWhiteAborts
        /\ Generated("debug") <=>
               /\ EXCLUDE_DEBUG \notin ctl_config.exclude
               /\ ~ForceWhiteAborts
        /\ EntitySet(ctl_entities) \subseteq
               EntitiesWithExclude({}) \cup EntitiesWithExclude({EXCLUDE_FORCE_WHITE})

\* Intro and timer are excluded, outro and the rest are not: the intro
\* entities and the timer are missing, the outro entities are there.
C6_Witness ==
    /\ ctl_pc = "done"
    /\ ctl_config.exclude = {EXCLUDE_INTRO, EXCLUDE_TIMER}
    /\ WhiteDetected
    /\ NoneGenerated("intro") /\ NoneGenerated("timer")
    /\ Generated("outro") /\ Generated("force_white") /\ Generated("debug")
    /\ Len(ctl_entities) = 9

\* A light that is driven with a white channel: cfx_light to_code sets
\* is_rgbw (explicit, else from the chipset) or is_wrgb for it.
DrivenWithWhite(lconf) == IsRgbw(lconf) \/ lconf.is_wrgb

\* C7: the Force White switch is generated only if it is not excluded and at
\* least one referenced light is driven with a white channel (is_rgbw true or
\* is_wrgb true); an SK6812 with an explicit is_rgbw: false and no is_wrgb has
\* none.
C7_ForceWhiteNeedsWhiteChannel ==
    (CtlRan /\ "force_white" \in GeneratedKeys) =>
        /\ EXCLUDE_FORCE_WHITE \notin ctl_config.exclude
        /\ \E i \in 1..Len(core_lights) :
               Referenced(core_lights[i]) /\ DrivenWithWhite(core_lights[i])

\* C8: `defaults` is ignored: to_code completes without error and generates
\* the same entities, initial values and restore modes as for the same
\* configuration without the `defaults` key.
C8_DefaultsIgnored ==
    CtlRan =>
        /\ ctl_pc = "done"
        /\ ctl_entities =
               ControlToCode([ctl_config EXCEPT !.defaults = NoDefaults], core_lights).entities

(***************************************************************************)
(* Claims about the addressable_cfx effect                                 *)
(***************************************************************************)

EffValidated == eff_pc # "declared"
EffGenerated == eff_pc \in {"done", "rendering"}

\* The calls of one setter among those cfx_effect_to_code emitted, in order.
EffectCallsOf(fn) == SelectSeq(eff_calls, LAMBDA c : c.fn = fn)

\* The ids of [0,255] that CFX_EFFECT_NAMES has no entry for.
OutsideRegistry == (0..255) \ ((0..52) \cup (54..113))

BoundSetters ==
    {"set_speed", "set_intensity", "set_palette", "set_mirror",
     "set_intro_effect", "set_intro_duration"}
PresetSetters ==
    {"set_speed_preset", "set_intensity_preset", "set_palette_preset", "set_mirror_preset"}

\* The preset key of each control that has one.
PresetOf(control) ==
    CASE control = "speed" -> "set_speed"
      [] control = "intensity" -> "set_intensity"
      [] control = "palette" -> "set_palette"
      [] OTHER -> "set_mirror"

\* The position of the only call of a setter among the emitted calls.
PositionOf(fn) == CHOOSE i \in 1..Len(eff_calls) : eff_calls[i].fn = fn

\* C12: cfx_effect_to_code emits exactly one call for every bound control and
\* every preset the effect declares, with the declared value, and none for an
\* absent one; every preset setter comes after every bound-control setter, so
\* that for a control declared together with its preset the preset is applied
\* last.
C12_PresetsAfterBoundControls ==
    EffGenerated =>
        /\ \A key \in OptionKeys :
               IF key \in DOMAIN eff_raw.options
               THEN /\ Len(EffectCallsOf(SetterOf(key))) = 1
                    /\ EffectCallsOf(SetterOf(key))[1].args = <<eff_raw.options[key]>>
               ELSE EffectCallsOf(SetterOf(key)) = <<>>
        /\ \A i, j \in 1..Len(eff_calls) :
               (eff_calls[i].fn \in PresetSetters /\ eff_calls[j].fn \in BoundSetters)
                   => j < i
        /\ \A control \in {"speed", "intensity", "palette", "mirror"} :
               ({control, PresetOf(control)} \subseteq DOMAIN eff_raw.options)
                   => PositionOf(SetterOf(control)) < PositionOf(SetterOf(PresetOf(control)))

\* Every control is bound and every preset is declared (set_mirror: false
\* too): ten setters follow the three fixed calls, the mirror preset last.
C12_Witness ==
    /\ eff_pc = "done"
    /\ DOMAIN eff_raw.options = OptionKeys
    /\ eff_raw.options["set_mirror"] = FALSE
    /\ Len(eff_calls) = 13
    /\ eff_calls[4].fn = "set_speed"
    /\ eff_calls[13] = Call("set_mirror_preset", <<FALSE>>)

(***************************************************************************)
(* Claims about the generated controls' ranges                             *)
(***************************************************************************)

\* The domain of each numeric control parameter, in tenths:
\* <<minimum, maximum, initial value>>.
ParameterDomain(key) ==
    CASE key \in {"speed", "intensity"} -> <<0, 2550, 1280>>
      [] key = "timer" -> <<0, 3600, 0>>
      [] OTHER -> <<5, 100, 10>>

Includes(options, option) == \E i \in 1..Len(options) : options[i] = option

\* C13: every generated number is registered with the bounds of its
\* parameter's domain (speed and intensity [0,255] step 1, timer [0,360] step
\* 1, intro and outro duration [0.5,10.0]) and publishes an initial value
\* inside them (128, 128, 0, 1.0, 1.0); every generated select publishes an
\* option of its own list (palette 'Default', intro and outro 'None').
C13_ControlsWithinDomain ==
    CtlRan =>
        \A i \in 1..Len(ctl_entities) :
            LET e == ctl_entities[i]
            IN  /\ e.type = "number" =>
                       /\ e.key \in {"speed", "intensity", "timer", "intro_dur", "outro_dur"}
                       /\ e.min_value = ParameterDomain(e.key)[1]
                       /\ e.max_value = ParameterDomain(e.key)[2]
                       /\ e.initial = ParameterDomain(e.key)[3]
                       /\ e.min_value <= e.initial /\ e.initial <= e.max_value
                       /\ e.key \in {"speed", "intensity", "timer"} => e.step = 10
                /\ e.type = "select" =>
                       /\ Includes(e.options, e.option)
                       /\ e.option = IF e.key = "palette" THEN "Default" ELSE "None"
                       /\ e.options = IF e.key = "palette" THEN PALETTE_OPTIONS
                                      ELSE INTRO_OPTIONS

\* Nothing is excluded: the five numbers and the three selects are generated.
C13_Witness ==
    /\ ctl_pc = "done"
    /\ ctl_config.exclude = {}
    /\ {"speed", "intensity", "timer", "intro_dur", "outro_dur", "palette", "intro", "outro"}
           \subseteq GeneratedKeys
    /\ \E i \in 1..Len(ctl_entities) :
           /\ ctl_entities[i].key = "outro_dur"
           /\ ctl_entities[i].min_value = 5
           /\ ctl_entities[i].initial = 10

(***************************************************************************)
(* Claims about the transition state machine                               *)
(***************************************************************************)

InTransition(st) == st.phase \in {"INTRO", "OUTRO"}

\* A segment never has two active blends, and has one exactly while its
\* transition is in INTRO or OUTRO.
AtMostOneBlend ==
    \A s \in TrSegments :
        /\ Len(tr[s].blends) <= 1
        /\ InTransition(tr[s]) <=> Len(tr[s].blends) = 1

\* A switch to another effect during INTRO or OUTRO takes over at once: the
\* running transition is dropped and the new effect's own starts from zero.
PreemptsImmediately ==
    \A s \in TrSegments :
        (InTransition(tr[s]) /\ tr'[s].effect_id # tr[s].effect_id) =>
            /\ tr'[s].phase # "OUTRO"
            /\ tr'[s].elapsed = 0
            /\ Len(tr'[s].blends) <= 1
            /\ \A i \in 1..Len(tr'[s].blends) : tr'[s].blends[i].to = tr'[s].effect_id

\* While the assigned effect of an ACTIVE segment stays the same, a further
\* request for it (or a tick) changes nothing: no transition restarts.
CompletedStaysCompleted ==
    \A s \in TrSegments :
        (tr[s].phase = "ACTIVE" /\ tr'[s].effect_id = tr[s].effect_id) => tr'[s] = tr[s]

\* C14: for every segment, a switch requested during INTRO or OUTRO preempts
\* the running transition immediately; a segment has at most one active blend
\* in every reachable state; and requesting the same effect again once its
\* transition has completed (ACTIVE) does not restart the transition.
C14_PreemptNeverStacks ==
    /\ []AtMostOneBlend
    /\ [][PreemptsImmediately /\ CompletedStaysCompleted]_vars

\* A segment with intro and outro configured whose intro starts from another
\* effect's frame: its previous transition was preempted, and one blend runs.
C14_Witness ==
    \E s \in TrSegments :
        /\ HasIntro(tr_config[s]) /\ HasOutro(tr_config[s])
        /\ tr[s].phase = "INTRO"
        /\ Len(tr[s].blends) = 1
        /\ tr[s].blends[1].from # Off
        /\ tr[s].blends[1].to = tr[s].effect_id

(***************************************************************************)
(* Further claims about segment validation                                 *)
(***************************************************************************)

\* Two ranges share at least one led.
Overlap(a, b) == a.start < b.stop /\ b.start < a.stop
SomePairOverlaps(segs) ==
    \E i, j \in 1..Len(segs) : i < j /\ Overlap(segs[i], segs[j])

\* Every segment on its own is well formed, so that only the ranges' mutual
\* position is left to decide.
EachSegmentValid(segs, n) ==
    /\ \A i \in 1..Len(segs) : 0 <= segs[i].start /\ segs[i].start < segs[i].stop
                               /\ segs[i].stop <= n
    /\ \A i, j \in 1..Len(segs) : i < j => segs[i].id # segs[j].id

Touching(segs) ==
    \E i, j \in 1..Len(segs) : i # j /\ segs[i].stop = segs[j].start

\* C15: a configuration of 1 to 6 segments with distinct ids, 0 <= start <
\* stop <= num_leds and pairwise disjoint ranges is accepted and returned
\* unchanged, in its declaration order, also when segments touch; among the
\* configurations of 1 to 6 well-formed segments the overlap error is raised
\* exactly when some pair of ranges overlaps; a configuration without
\* segments is accepted unchanged.
C15_DisjointSegmentsAccepted ==
    SegValidated =>
        /\ segments = <<>> => (seg_status = "accepted" /\ seg_returned = segments)
        /\ ( /\ Len(segments) \in 1..MAX_CFX_SEGMENTS
             /\ EachSegmentValid(segments, num_leds) ) =>
               /\ ~SomePairOverlaps(segments) =>
                      (seg_status = "accepted" /\ seg_returned = segments)
               /\ SomePairOverlaps(segments) => seg_status = "overlap"
        /\ seg_status = "overlap" =>
               /\ Len(segments) \in 1..MAX_CFX_SEGMENTS
               /\ EachSegmentValid(segments, num_leds)
               /\ SomePairOverlaps(segments)

\* Two touching segments declared with the later range first are accepted
\* and returned in declaration order.
C15_Witness ==
    /\ seg_status = "accepted"
    /\ Len(segments) = 2
    /\ segments[1].start = segments[2].stop
    /\ Touching(segments)
    /\ seg_returned = segments

(***************************************************************************)
(* Further claims about _inject_all_effects                                *)
(***************************************************************************)

\* The global duration that is configured and can be parsed.
GlobalDur == IntroDurSec(inj_config.intro_dur)

\* C16: whether or not all_effects is enabled, and for user-defined and
\* injected effects alike, every addressable_cfx effect of the returned list
\* whose effect_id is not exempt carries set_intro when use_intro is
\* configured, set_outro when use_outro is, and set_intro_dur and
\* set_outro_dur when intro_dur is; the user-defined effects are all in the
\* returned list.
C16_GlobalAppliedToAllEffects ==
    Injected =>
        /\ Len(inj_out) >= NumUser
        /\ \A i \in 1..Len(inj_out) :
               (IsCfx(inj_out[i]) /\ ~SystemEffect(inj_out[i])) =>
                   /\ inj_config.use_intro # Unset => inj_out[i].set_intro # Unset
                   /\ inj_config.use_outro # Unset => inj_out[i].set_outro # Unset
                   /\ GlobalDur # NoDur =>
                          /\ inj_out[i].set_intro_dur # NoDur
                          /\ inj_out[i].set_outro_dur # NoDur

\* The intro / outro keys of an effect, and the value that stands for a
\* missing key.
IntroOutroKeys == {"set_intro", "set_outro", "set_intro_dur", "set_outro_dur"}
Missing(key) == IF key \in {"set_intro", "set_outro"} THEN Unset ELSE NoDur

\* The global intro_dur in seconds, <<whole, thousandths>>, read off the
\* declared period; NoDur when it is absent or is no time period.
GlobalSeconds ==
    CASE inj_config.intro_dur.unit = "s" -> <<inj_config.intro_dur.n, 0>>
      [] inj_config.intro_dur.unit = "ms" ->
             <<inj_config.intro_dur.n \div 1000, inj_config.intro_dur.n % 1000>>
      [] OTHER -> NoDur

\* The global value that may fill a missing key.
GlobalValue(key) ==
    CASE key = "set_intro" -> inj_config.use_intro
      [] key = "set_outro" -> inj_config.use_outro
      [] OTHER -> GlobalSeconds

\* `after` is `before` with nothing but missing intro / outro keys filled,
\* each from its global value.
OnlyMissingFilled(before, after) ==
    /\ after.kind = before.kind
    /\ after.name = before.name
    /\ after.effect_id = before.effect_id
    /\ \A key \in IntroOutroKeys :
           IF before[key] # Missing(key) THEN after[key] = before[key]
           ELSE after[key] \in {Missing(key), GlobalValue(key)}

\* C17: every effect comes out with each set_intro / set_outro /
\* set_intro_dur / set_outro_dur it declared unchanged; only missing keys are
\* filled, set_intro_dur and set_outro_dur both from the one global intro_dur
\* in seconds; an intro_dur that is no time period adds no duration key and
\* the injection still completes.
C17_DeclaredValuesKept ==
    Injected =>
        /\ Len(inj_out) >= NumUser
        /\ \A i \in 1..NumUser : OnlyMissingFilled(inj_config.effects[i], inj_out[i])
        /\ \A i \in (NumUser + 1)..Len(inj_out) :
               \E k \in 1..Len(bundled) : OnlyMissingFilled(bundled[k], inj_out[i])
        /\ \A i \in 1..Len(inj_out) :
               (IsCfx(inj_out[i]) /\ ~SystemEffect(inj_out[i]) /\ inj_config.all_effects
                   /\ i <= NumUser /\ GlobalSeconds # NoDur) =>
                   \A key \in {"set_intro_dur", "set_outro_dur"} :
                       inj_config.effects[i][key] = NoDur => inj_out[i][key] = GlobalSeconds
        /\ GlobalSeconds = NoDur =>
               \A i \in 1..NumUser :
                   /\ inj_out[i].set_intro_dur = inj_config.effects[i].set_intro_dur
                   /\ inj_out[i].set_outro_dur = inj_config.effects[i].set_outro_dur

\* Global intro 0, outro 2 and a 1500 ms duration meet a user effect that
\* declares set_intro 4 and set_intro_dur 0.25 s only: both stay, and the
\* missing set_outro and set_outro_dur are filled with 2 and 1.5 s.
C17_Witness ==
    /\ Injected
    /\ inj_config.all_effects
    /\ inj_config.use_intro = 0
    /\ inj_config.use_outro = 2
    /\ inj_config.intro_dur = [n |-> 1500, unit |-> "ms"]
    /\ \E i \in 1..NumUser :
           /\ inj_config.effects[i].set_intro = 4
           /\ inj_config.effects[i].set_outro = Unset
           /\ inj_out[i].set_intro = 4
           /\ inj_out[i].set_outro = 2
           /\ inj_out[i].set_intro_dur = <<0, 250>>
           /\ inj_out[i].set_outro_dur = <<1, 500>>

(***************************************************************************)
(* Further claims about cfx_light to_code                                  *)
(***************************************************************************)

DefaultSetters ==
    { "set_default_intro_mode", "set_default_outro_mode",
      "set_default_intro_dur", "set_default_outro_dur" }

\* The positions of the calls of some functions among the emitted calls.
PositionsOf(fns) == { i \in 1..Len(lt_calls) : lt_calls[i].fn \in fns }

\* C18: in the calls cfx_light to_code emits, every strip-level default
\* setter and set_num_leds precede every add_segment_def, and add_segment_def
\* is emitted exactly once per declared segment, in declaration order.
C18_DefaultsBeforeSegments ==
    CfxLightDone =>
        /\ \A i \in PositionsOf(DefaultSetters \cup {"set_num_leds"}) :
               \A j \in PositionsOf({"add_segment_def"}) : i < j
        /\ Cardinality(PositionsOf({"set_num_leds"})) = 1
        /\ Cardinality(PositionsOf({"add_segment_def"})) = Len(lt_raw.segments)
        /\ \A k \in 1..Len(lt_raw.segments) :
               /\ CallsOf("add_segment_def")[k].args[1] = lt_raw.segments[k].id
               /\ CallsOf("add_segment_def")[k].args[2] = lt_raw.segments[k].start
               /\ CallsOf("add_segment_def")[k].args[3] = lt_raw.segments[k].stop

\* All three strip-level defaults are configured and two segments declared:
\* the four default setters come first, the two segments last, in order.
C18_Witness ==
    /\ CfxLightDone
    /\ Len(lt_raw.segments) = 2
    /\ Cardinality(PositionsOf(DefaultSetters)) = 4
    /\ lt_calls[Len(lt_calls) - 1].fn = "add_segment_def"
    /\ lt_calls[Len(lt_calls) - 1].args[1] = lt_raw.segments[1].id
    /\ lt_calls[Len(lt_calls)].args[1] = lt_raw.segments[2].id
    /\ lt_calls[Len(lt_calls) - 2].fn = "set_default_outro_dur"

====
